---- MODULE Spec2Model ----
(***************************************************************************)
(* Model of the TTL caching decorator CachingDataSource                    *)
(* (src/src/blockchain/cache.rs) over an arbitrary wrapped                 *)
(* BlockchainDataSource (src/src/blockchain/source.rs).                    *)
(*                                                                         *)
(* Several callers run decorator operations concurrently.  A call is cut   *)
(* at the points where another thread can interleave: taking the read      *)
(* lock, the lookup under the read lock, the return of the wrapped source, *)
(* taking the write lock, and the insert under the write lock.             *)
(***************************************************************************)
EXTENDS Integers, FiniteSets, Sequences, TLC

(* ---------------------------------------------------------------------- *)
(* Bounds of the model                                                     *)
(* ---------------------------------------------------------------------- *)
\* The clock (tokio::time::Instant) runs from 0 to MaxTime.
MaxTime == 1
\* The TTL handed to CachingDataSource::new is drawn from 0..MaxTTL.
MaxTTL == 1
\* Largest clock value and TTL where one client calls in sequence.
MaxClock == 2

Callers == {"c1", "c2"}
Txids == {"A"}
Vouts == {0}
OutPoints == Txids \X Vouts
Transactions == {"tx1", "tx2"}

(* ---------------------------------------------------------------------- *)
(* Values                                                                  *)
(* ---------------------------------------------------------------------- *)
NoTx == "none"

\* enum BlockchainError: the six kinds, five of them carrying a detail.
ErrorKinds ==
    {"NetworkFailure", "NotFound", "InvalidInput", "RateLimited",
     "DataInconsistency", "Other"}
Details == {"d1", "d2"}
NoError == [kind |-> "none", detail |-> ""]
BlockchainError ==
    {[kind |-> "RateLimited", detail |-> ""]}
        \cup {[kind |-> "NetworkFailure", detail |-> d] : d \in Details}
        \cup {[kind |-> k, detail |-> "d1"] :
                 k \in ErrorKinds \ {"RateLimited", "NetworkFailure"}}

\* Result<Transaction> and Result<Option<Transaction>>, and the two ways a
\* call can have no Result: not finished yet, or ended by a panic.
Ok(tx) == [tag |-> "Ok", tx |-> tx, err |-> NoError]
OkSome(tx) == [tag |-> "OkSome", tx |-> tx, err |-> NoError]
OkNone == [tag |-> "OkNone", tx |-> NoTx, err |-> NoError]
Err(e) == [tag |-> "Err", tx |-> NoTx, err |-> e]
Panicked == [tag |-> "Panic", tx |-> NoTx, err |-> NoError]
NoResult == [tag |-> "NoResult", tx |-> NoTx, err |-> NoError]

\* A variant of the spending key that drops the tag: the key is the txid alone.
SpendingKey_untagged(outpoint) == <<"Transaction", outpoint[1], -1>>

\* enum CacheKey { Transaction(Txid), Spending(OutPoint) }: the tag is part of
\* the key.
TransactionKey(txid) == <<"Transaction", txid, -1>>
SpendingKey(outpoint) == <<"Spending", outpoint[1], outpoint[2]>>
CacheKey ==
    ({"Transaction"} \X Txids \X {-1}) \cup ({"Spending"} \X Txids \X Vouts)
\* The arguments of a call, as a tuple: <<txid>>, or the two fields of the
\* outpoint; none while no call is in progress.
NoArg == <<>>

\* struct CachedEntry { transaction, inserted_at }; NoEntry is an absent key.
NoEntry == [transaction |-> NoTx, inserted_at |-> -1]
CachedEntry(tx, at) == [transaction |-> tx, inserted_at |-> at]

CachedOps == {"get_transaction", "get_spending_transaction"}
StubOps ==
    {"get_address_transactions", "get_transactions_batch",
     "get_spending_transactions_batch"}


(* ---------------------------------------------------------------------- *)
(* State                                                                   *)
(* ---------------------------------------------------------------------- *)
VARIABLES
    cache,        \* CachingDataSource.cache: CacheKey -> CachedEntry or NoEntry
    ttl,          \* CachingDataSource.ttl
    readers,      \* callers holding the RwLock's read guard
    writer,       \* the caller holding the RwLock's write guard, or NoCaller
    now,          \* the monotonic clock
    pc,           \* where each caller is in its call
    op,           \* the operation each caller runs
    arg,          \* the txid or outpoint the operation is called with
    invoked,      \* wrapped-source invocations made by the call so far
    fetched,      \* what the wrapped source returned to the call (local `tx`)
    result,       \* what the call handed back to its caller
    lastFetched,  \* per key, the transaction the wrapped source returned last
    lastOk,       \* per key, the transaction the decorator handed back last
    apc,          \* where the backend adapter is in the call it is running
    wire,         \* what the adapter has put on the wire in that call, in order
    atxid,        \* the txid the adapter's get_transaction is fetching
    resp,         \* the last response the adapter received from its backend
    aret,         \* what the adapter call returned, until its caller takes it
    source,       \* per key, the answer of a wrapped source that never changes
    returned      \* per key, the transactions the wrapped source has returned

vars ==
    <<cache, ttl, readers, writer, now, pc, op, arg, invoked, fetched,
      result, lastFetched, lastOk, apc, wire, atxid, resp, aret,
      source, returned>>

NoCaller == "nobody"

locals == <<op, arg, invoked, fetched, result>>
lockVars == <<readers, writer>>
history == <<lastFetched, lastOk>>
adapterVars == <<apc, wire, atxid, resp, aret>>
sourceVars == <<source, returned>>
\* What a step of the decorator alone leaves as it is.
outside == <<adapterVars, sourceVars>>

\* No response received yet.
NoResponse == [kind |-> "none"]

\* No adapter call is running.
AdapterIdle ==
    /\ apc = "idle"
    /\ wire = <<>>
    /\ atxid = NoTx
    /\ resp = NoResponse
    /\ aret = NoResult

\* CachingDataSource::new: an empty map and the given TTL; nobody is calling.
\* The decorator after new(), no call made yet.
Constructed ==
    /\ cache = [k \in CacheKey |-> NoEntry]
    /\ readers = {}
    /\ writer = NoCaller
    /\ now = 0
    /\ pc = [c \in Callers |-> "idle"]
    /\ op = [c \in Callers |-> "none"]
    /\ arg = [c \in Callers |-> NoArg]
    /\ invoked = [c \in Callers |-> 0]
    /\ fetched = [c \in Callers |-> NoResult]
    /\ result = [c \in Callers |-> NoResult]
    /\ lastFetched = [k \in CacheKey |-> NoTx]
    /\ lastOk = [k \in CacheKey |-> NoTx]
    /\ AdapterIdle
    /\ returned = [k \in CacheKey |-> {}]

\* Nothing is fixed about the answers of the wrapped source.
AnySource == [k \in CacheKey |-> NoResult]

Init ==
    /\ ttl \in 0..MaxTTL
    /\ Constructed
    /\ source = AnySource

(* ---------------------------------------------------------------------- *)
(* Helpers                                                                 *)
(* ---------------------------------------------------------------------- *)
\* entry.inserted_at.elapsed()
Elapsed(entry) == now - entry.inserted_at

\* Variants of the freshness test: the comparison reversed, and the boundary
\* included.
CacheHit_reversed(k) == cache[k] # NoEntry /\ Elapsed(cache[k]) > ttl
CacheHit_inclusive(k) == cache[k] # NoEntry /\ Elapsed(cache[k]) <= ttl

\* `if let Some(entry) = cache.get(&key) && entry.inserted_at.elapsed() < self.ttl`
CacheHit(k) == cache[k] # NoEntry /\ Elapsed(cache[k]) < ttl

\* Variants of the insert: nothing is stored, and an existing entry is kept
\* (the behaviour of entry().or_insert()).
Inserted_nothing(k, tx) == cache
Inserted_keepFirst(k, tx) ==
    IF cache[k] = NoEntry THEN [cache EXCEPT ![k] = CachedEntry(tx, now)] ELSE cache

\* cache.insert(key, CachedEntry { transaction, inserted_at: Instant::now() })
Inserted(k, tx) == [cache EXCEPT ![k] = CachedEntry(tx, now)]

\* What the wrapped source can answer to each of the two operations.
InnerAnswers(o) ==
    IF o = "get_transaction"
    THEN {Ok(tx) : tx \in Transactions} \cup {Err(e) : e \in BlockchainError}
    ELSE {OkSome(tx) : tx \in Transactions} \cup {OkNone}
             \cup {Err(e) : e \in BlockchainError}

\* let key = CacheKey::Transaction(txid);  let key = CacheKey::Spending(outpoint);
Key(c) ==
    IF op[c] = "get_transaction"
    THEN TransactionKey(arg[c][1])
    ELSE SpendingKey(arg[c])

\* RwLock::read() is granted while no writer holds the lock, RwLock::write()
\* while nobody holds it.
CanRead == writer = NoCaller
CanWrite == writer = NoCaller /\ readers = {}

(* ---------------------------------------------------------------------- *)
(* A caller starts one of the five operations of the contract              *)
(* ---------------------------------------------------------------------- *)
Call(c, o, a) ==
    /\ pc[c] = "idle"
    /\ pc' = [pc EXCEPT ![c] = "called"]
    /\ op' = [op EXCEPT ![c] = o]
    /\ arg' = [arg EXCEPT ![c] = a]
    /\ UNCHANGED <<cache, ttl, now, invoked, fetched, result>>
    /\ UNCHANGED <<lockVars, history>>

\* The caller takes the returned value (or its task is gone after a panic) and
\* is free to call again.
Return(c) ==
    /\ pc[c] = "done"
    /\ pc' = [pc EXCEPT ![c] = "idle"]
    /\ op' = [op EXCEPT ![c] = "none"]
    /\ arg' = [arg EXCEPT ![c] = NoArg]
    /\ invoked' = [invoked EXCEPT ![c] = 0]
    /\ fetched' = [fetched EXCEPT ![c] = NoResult]
    /\ result' = [result EXCEPT ![c] = NoResult]
    /\ UNCHANGED <<cache, ttl, now>>
    /\ UNCHANGED <<lockVars, history>>

\* Time passes.
Tick ==
    /\ now < MaxTime
    /\ now' = now + 1
    /\ UNCHANGED <<cache, ttl, pc, locals, lockVars, history>>

(* ---------------------------------------------------------------------- *)
(* CachingDataSource::get_transaction                                      *)
(* ---------------------------------------------------------------------- *)
\* let cache = self.cache.read().unwrap();
get_transaction_read(c) ==
    /\ pc[c] = "called"
    /\ op[c] = "get_transaction"
    /\ CanRead
    /\ readers' = readers \cup {c}
    /\ pc' = [pc EXCEPT ![c] = "check"]
    /\ UNCHANGED <<cache, ttl, now, writer, locals, history>>

\* Variants of the lookup below: the read guard is kept across the call of the
\* wrapped source, and a miss joins a fetch of the same key already in flight.
get_transaction_lookup_holdGuard(c) ==
    /\ pc[c] = "check"
    /\ op[c] = "get_transaction"
    /\ IF CacheHit(Key(c))
       THEN /\ result' = [result EXCEPT ![c] = Ok(cache[Key(c)].transaction)]
            /\ lastOk' = [lastOk EXCEPT ![Key(c)] = cache[Key(c)].transaction]
            /\ pc' = [pc EXCEPT ![c] = "done"]
            /\ readers' = readers \ {c}
            /\ UNCHANGED invoked
       ELSE /\ invoked' = [invoked EXCEPT ![c] = @ + 1]
            /\ pc' = [pc EXCEPT ![c] = "await"]
            /\ UNCHANGED <<result, lastOk, readers>>
    /\ UNCHANGED <<cache, ttl, now, writer, op, arg, fetched, lastFetched>>

get_transaction_lookup_coalesce(c) ==
    /\ pc[c] = "check"
    /\ op[c] = "get_transaction"
    /\ readers' = readers \ {c}
    /\ IF CacheHit(Key(c))
       THEN /\ result' = [result EXCEPT ![c] = Ok(cache[Key(c)].transaction)]
            /\ lastOk' = [lastOk EXCEPT ![Key(c)] = cache[Key(c)].transaction]
            /\ pc' = [pc EXCEPT ![c] = "done"]
            /\ UNCHANGED invoked
       ELSE /\ invoked' =
                  IF \E d \in Callers \ {c} :
                         pc[d] = "await" /\ op[d] = op[c] /\ arg[d] = arg[c]
                  THEN invoked
                  ELSE [invoked EXCEPT ![c] = @ + 1]
            /\ pc' = [pc EXCEPT ![c] = "await"]
            /\ UNCHANGED <<result, lastOk>>
    /\ UNCHANGED <<cache, ttl, now, writer, op, arg, fetched, lastFetched>>

\* Variant of the lookup below: an entry found expired is evicted.
get_transaction_lookup_evict(c) ==
    /\ pc[c] = "check"
    /\ op[c] = "get_transaction"
    /\ readers' = readers \ {c}
    /\ IF CacheHit(Key(c))
       THEN /\ result' = [result EXCEPT ![c] = Ok(cache[Key(c)].transaction)]
            /\ lastOk' = [lastOk EXCEPT ![Key(c)] = cache[Key(c)].transaction]
            /\ pc' = [pc EXCEPT ![c] = "done"]
            /\ UNCHANGED <<invoked, cache>>
       ELSE /\ invoked' = [invoked EXCEPT ![c] = @ + 1]
            /\ pc' = [pc EXCEPT ![c] = "await"]
            /\ cache' = [cache EXCEPT ![Key(c)] = NoEntry]
            /\ UNCHANGED <<result, lastOk>>
    /\ UNCHANGED <<ttl, now, writer, op, arg, fetched, lastFetched>>

\* Variant of the lookup below: a hit stamps the entry anew.
get_transaction_lookup_touch(c) ==
    /\ pc[c] = "check"
    /\ op[c] = "get_transaction"
    /\ readers' = readers \ {c}
    /\ IF CacheHit(Key(c))
       THEN /\ result' = [result EXCEPT ![c] = Ok(cache[Key(c)].transaction)]
            /\ lastOk' = [lastOk EXCEPT ![Key(c)] = cache[Key(c)].transaction]
            /\ pc' = [pc EXCEPT ![c] = "done"]
            /\ cache' = [cache EXCEPT ![Key(c)].inserted_at = now]
            /\ UNCHANGED invoked
       ELSE /\ invoked' = [invoked EXCEPT ![c] = @ + 1]
            /\ pc' = [pc EXCEPT ![c] = "await"]
            /\ UNCHANGED <<result, lastOk, cache>>
    /\ UNCHANGED <<ttl, now, writer, op, arg, fetched, lastFetched>>

\* The lookup under the read lock: a fresh entry is returned; otherwise the
\* read guard is dropped and the wrapped source is invoked.
get_transaction_lookup(c) ==
    /\ pc[c] = "check"
    /\ op[c] = "get_transaction"
    /\ readers' = readers \ {c}
    /\ IF CacheHit(Key(c))
       THEN /\ result' = [result EXCEPT ![c] = Ok(cache[Key(c)].transaction)]
            /\ lastOk' = [lastOk EXCEPT ![Key(c)] = cache[Key(c)].transaction]
            /\ pc' = [pc EXCEPT ![c] = "done"]
            /\ UNCHANGED invoked
       ELSE /\ invoked' = [invoked EXCEPT ![c] = @ + 1]
            /\ pc' = [pc EXCEPT ![c] = "await"]
            /\ UNCHANGED <<result, lastOk>>
    /\ UNCHANGED <<cache, ttl, now, writer, op, arg, fetched, lastFetched>>

\* Variants of the step below: an error of the wrapped source is handed back as
\* kind Other, and a failed fetch goes on to the insert.
get_transaction_fetched_translate(c, ans) ==
    /\ pc[c] = "await"
    /\ op[c] = "get_transaction"
    /\ fetched' = [fetched EXCEPT ![c] = ans]
    /\ IF ans.tag = "Err"
       THEN /\ result' =
                  [result EXCEPT
                      ![c] = Err([kind |-> "Other", detail |-> ans.err.detail])]
            /\ pc' = [pc EXCEPT ![c] = "done"]
            /\ UNCHANGED lastFetched
       ELSE /\ lastFetched' = [lastFetched EXCEPT ![Key(c)] = ans.tx]
            /\ pc' = [pc EXCEPT ![c] = "write"]
            /\ UNCHANGED result
    /\ UNCHANGED <<cache, ttl, now, op, arg, invoked, lastOk, lockVars>>

get_transaction_fetched_cacheErr(c, ans) ==
    /\ pc[c] = "await"
    /\ op[c] = "get_transaction"
    /\ fetched' = [fetched EXCEPT ![c] = ans]
    /\ lastFetched' =
           IF ans.tag = "Err"
           THEN lastFetched
           ELSE [lastFetched EXCEPT ![Key(c)] = ans.tx]
    /\ pc' = [pc EXCEPT ![c] = "write"]
    /\ UNCHANGED <<cache, ttl, now, op, arg, invoked, result, lastOk, lockVars>>

\* let tx = self.inner.get_transaction(txid).await?;
get_transaction_fetched(c, ans) ==
    /\ pc[c] = "await"
    /\ op[c] = "get_transaction"
    /\ fetched' = [fetched EXCEPT ![c] = ans]
    /\ IF ans.tag = "Err"
       THEN /\ result' = [result EXCEPT ![c] = ans]
            /\ pc' = [pc EXCEPT ![c] = "done"]
            /\ UNCHANGED lastFetched
       ELSE /\ lastFetched' = [lastFetched EXCEPT ![Key(c)] = ans.tx]
            /\ pc' = [pc EXCEPT ![c] = "write"]
            /\ UNCHANGED result
    /\ UNCHANGED <<cache, ttl, now, op, arg, invoked, lastOk, lockVars>>

\* let mut cache = self.cache.write().unwrap();
get_transaction_write(c) ==
    /\ pc[c] = "write"
    /\ op[c] = "get_transaction"
    /\ CanWrite
    /\ writer' = c
    /\ pc' = [pc EXCEPT ![c] = "insert"]
    /\ UNCHANGED <<cache, ttl, now, readers, locals, history>>

\* Variant of the insert below: the write guard is not released.
get_transaction_insert_keepGuard(c) ==
    /\ pc[c] = "insert"
    /\ op[c] = "get_transaction"
    /\ cache' = Inserted(Key(c), fetched[c].tx)
    /\ result' = [result EXCEPT ![c] = Ok(fetched[c].tx)]
    /\ lastOk' = [lastOk EXCEPT ![Key(c)] = fetched[c].tx]
    /\ pc' = [pc EXCEPT ![c] = "done"]
    /\ UNCHANGED <<ttl, now, readers, writer, op, arg, invoked, fetched,
                   lastFetched>>

\* cache.insert(key, entry); the write guard is dropped; Ok(tx)
get_transaction_insert(c) ==
    /\ pc[c] = "insert"
    /\ op[c] = "get_transaction"
    /\ cache' = Inserted(Key(c), fetched[c].tx)
    /\ writer' = NoCaller
    /\ result' = [result EXCEPT ![c] = Ok(fetched[c].tx)]
    /\ lastOk' = [lastOk EXCEPT ![Key(c)] = fetched[c].tx]
    /\ pc' = [pc EXCEPT ![c] = "done"]
    /\ UNCHANGED <<ttl, now, readers, op, arg, invoked, fetched,
                   lastFetched>>

(* ---------------------------------------------------------------------- *)
(* CachingDataSource::get_spending_transaction                             *)
(* ---------------------------------------------------------------------- *)
\* let cache = self.cache.read().unwrap();
get_spending_transaction_read(c) ==
    /\ pc[c] = "called"
    /\ op[c] = "get_spending_transaction"
    /\ CanRead
    /\ readers' = readers \cup {c}
    /\ pc' = [pc EXCEPT ![c] = "check"]
    /\ UNCHANGED <<cache, ttl, now, writer, locals, history>>

\* Variant of the lookup below: the entry is looked up under the Transaction
\* key of the outpoint's txid.
get_spending_transaction_lookup_byTxid(c) ==
    /\ pc[c] = "check"
    /\ op[c] = "get_spending_transaction"
    /\ readers' = readers \ {c}
    /\ IF CacheHit(TransactionKey(arg[c][1]))
       THEN /\ result' =
                  [result EXCEPT
                      ![c] = OkSome(cache[TransactionKey(arg[c][1])].transaction)]
            /\ lastOk' = [lastOk EXCEPT
                              ![Key(c)] =
                                  cache[TransactionKey(arg[c][1])].transaction]
            /\ pc' = [pc EXCEPT ![c] = "done"]
            /\ UNCHANGED invoked
       ELSE /\ invoked' = [invoked EXCEPT ![c] = @ + 1]
            /\ pc' = [pc EXCEPT ![c] = "await"]
            /\ UNCHANGED <<result, lastOk>>
    /\ UNCHANGED <<cache, ttl, now, writer, op, arg, fetched, lastFetched>>

\* The lookup under the read lock: a fresh entry is returned as Some; otherwise
\* the read guard is dropped and the wrapped source is invoked.
get_spending_transaction_lookup(c) ==
    /\ pc[c] = "check"
    /\ op[c] = "get_spending_transaction"
    /\ readers' = readers \ {c}
    /\ IF CacheHit(Key(c))
       THEN /\ result' =
                  [result EXCEPT ![c] = OkSome(cache[Key(c)].transaction)]
            /\ lastOk' = [lastOk EXCEPT ![Key(c)] = cache[Key(c)].transaction]
            /\ pc' = [pc EXCEPT ![c] = "done"]
            /\ UNCHANGED invoked
       ELSE /\ invoked' = [invoked EXCEPT ![c] = @ + 1]
            /\ pc' = [pc EXCEPT ![c] = "await"]
            /\ UNCHANGED <<result, lastOk>>
    /\ UNCHANGED <<cache, ttl, now, writer, op, arg, fetched, lastFetched>>

\* A variant of the step below: every Ok answer, None included, goes on to the
\* insert.
get_spending_transaction_fetched_memoNone(c, ans) ==
    /\ pc[c] = "await"
    /\ op[c] = "get_spending_transaction"
    /\ fetched' = [fetched EXCEPT ![c] = ans]
    /\ IF ans.tag # "Err"
       THEN /\ lastFetched' =
                  IF ans.tag = "OkSome"
                  THEN [lastFetched EXCEPT ![Key(c)] = ans.tx]
                  ELSE lastFetched
            /\ pc' = [pc EXCEPT ![c] = "write"]
            /\ UNCHANGED result
       ELSE /\ result' = [result EXCEPT ![c] = ans]
            /\ pc' = [pc EXCEPT ![c] = "done"]
            /\ UNCHANGED lastFetched
    /\ UNCHANGED <<cache, ttl, now, op, arg, invoked, lastOk, lockVars>>

\* let tx = self.inner.get_spending_transaction(outpoint).await?;
\* if let Some(ref transaction) = tx { ...write... }  Ok(tx)
get_spending_transaction_fetched(c, ans) ==
    /\ pc[c] = "await"
    /\ op[c] = "get_spending_transaction"
    /\ fetched' = [fetched EXCEPT ![c] = ans]
    /\ IF ans.tag = "OkSome"
       THEN /\ lastFetched' = [lastFetched EXCEPT ![Key(c)] = ans.tx]
            /\ pc' = [pc EXCEPT ![c] = "write"]
            /\ UNCHANGED result
       ELSE /\ result' = [result EXCEPT ![c] = ans]
            /\ pc' = [pc EXCEPT ![c] = "done"]
            /\ UNCHANGED lastFetched
    /\ UNCHANGED <<cache, ttl, now, op, arg, invoked, lastOk, lockVars>>

\* let mut cache = self.cache.write().unwrap();
get_spending_transaction_write(c) ==
    /\ pc[c] = "write"
    /\ op[c] = "get_spending_transaction"
    /\ CanWrite
    /\ writer' = c
    /\ pc' = [pc EXCEPT ![c] = "insert"]
    /\ UNCHANGED <<cache, ttl, now, readers, locals, history>>

\* Variant of the insert below: the spender is stored under a Transaction key
\* as well.
get_spending_transaction_insert_alsoTransaction(c) ==
    /\ pc[c] = "insert"
    /\ op[c] = "get_spending_transaction"
    /\ cache' = [Inserted(Key(c), fetched[c].tx) EXCEPT
                    ![TransactionKey(arg[c][1])] =
                        CachedEntry(fetched[c].tx, now)]
    /\ writer' = NoCaller
    /\ result' = [result EXCEPT ![c] = OkSome(fetched[c].tx)]
    /\ lastOk' = [lastOk EXCEPT ![Key(c)] = fetched[c].tx]
    /\ pc' = [pc EXCEPT ![c] = "done"]
    /\ UNCHANGED <<ttl, now, readers, op, arg, invoked, fetched,
                   lastFetched>>

\* cache.insert(key, CachedEntry {..}); the write guard is dropped; Ok(tx)
get_spending_transaction_insert(c) ==
    /\ pc[c] = "insert"
    /\ op[c] = "get_spending_transaction"
    /\ cache' = Inserted(Key(c), fetched[c].tx)
    /\ writer' = NoCaller
    /\ result' = [result EXCEPT ![c] = OkSome(fetched[c].tx)]
    /\ lastOk' = [lastOk EXCEPT ![Key(c)] = fetched[c].tx]
    /\ pc' = [pc EXCEPT ![c] = "done"]
    /\ UNCHANGED <<ttl, now, readers, op, arg, invoked, fetched,
                   lastFetched>>

(* ---------------------------------------------------------------------- *)
(* The three operations whose body is todo!()                              *)
(* ---------------------------------------------------------------------- *)
\* todo!() panics as soon as the call runs: no value is returned, the wrapped
\* source is not invoked and the cache is not touched.
Todo(c, o) ==
    /\ pc[c] = "called"
    /\ op[c] = o
    /\ result' = [result EXCEPT ![c] = Panicked]
    /\ pc' = [pc EXCEPT ![c] = "done"]
    /\ UNCHANGED <<cache, ttl, now, op, arg, invoked, fetched>>
    /\ UNCHANGED <<lockVars, history>>

get_address_transactions(c) == Todo(c, "get_address_transactions")
get_transactions_batch(c) == Todo(c, "get_transactions_batch")
get_spending_transactions_batch(c) == Todo(c, "get_spending_transactions_batch")

(* ---------------------------------------------------------------------- *)
(* Specification                                                           *)
(* ---------------------------------------------------------------------- *)
\* The decorator over an arbitrary wrapped source: each answer of the source is
\* any value of its Result type, and no adapter of this repository runs.
Next ==
    \/ \E c \in Callers, t \in Txids :
           Call(c, "get_transaction", <<t>>) /\ UNCHANGED outside
    \/ \E c \in Callers, o \in OutPoints :
           Call(c, "get_spending_transaction", o) /\ UNCHANGED outside
    \/ \E c \in Callers, o \in StubOps :
           Call(c, o, NoArg) /\ UNCHANGED outside
    \/ \E c \in Callers : get_transaction_read(c) /\ UNCHANGED outside
    \/ \E c \in Callers : get_transaction_lookup(c) /\ UNCHANGED outside
    \/ \E c \in Callers, ans \in InnerAnswers("get_transaction") :
           get_transaction_fetched(c, ans) /\ UNCHANGED outside
    \/ \E c \in Callers : get_transaction_write(c) /\ UNCHANGED outside
    \/ \E c \in Callers : get_transaction_insert(c) /\ UNCHANGED outside
    \/ \E c \in Callers :
           get_spending_transaction_read(c) /\ UNCHANGED outside
    \/ \E c \in Callers :
           get_spending_transaction_lookup(c) /\ UNCHANGED outside
    \/ \E c \in Callers, ans \in InnerAnswers("get_spending_transaction") :
           get_spending_transaction_fetched(c, ans) /\ UNCHANGED outside
    \/ \E c \in Callers :
           get_spending_transaction_write(c) /\ UNCHANGED outside
    \/ \E c \in Callers :
           get_spending_transaction_insert(c) /\ UNCHANGED outside
    \/ \E c \in Callers : get_address_transactions(c) /\ UNCHANGED outside
    \/ \E c \in Callers : get_transactions_batch(c) /\ UNCHANGED outside
    \/ \E c \in Callers :
           get_spending_transactions_batch(c) /\ UNCHANGED outside
    \/ \E c \in Callers : Return(c) /\ UNCHANGED outside
    \/ Tick /\ UNCHANGED outside

Spec == Init /\ [][Next]_vars

TypeOK ==
    /\ cache \in [CacheKey ->
                     {NoEntry} \cup
                     {CachedEntry(tx, at) : tx \in Transactions, at \in 0..MaxTime}]
    /\ ttl \in 0..MaxTTL
    /\ readers \subseteq Callers
    /\ writer \in Callers \cup {NoCaller}
    /\ now \in 0..MaxTime
    /\ invoked \in [Callers -> 0..1]
    /\ writer # NoCaller => readers = {}

(* ---------------------------------------------------------------------- *)
(* The block-explorer adapter: EsploraClient                               *)
(* ---------------------------------------------------------------------- *)
\* Txids the explorer can name as the spender of an outpoint.
WireTxids == Txids \cup {"B"}

Error(kind, detail) == [kind |-> kind, detail |-> detail]

\* What goes on the wire: the pacing sleep and the HTTP requests, by URL.
base_url == "https://mempool.space/api"
Sleep == [verb |-> "sleep", url |-> "100ms", body |-> ""]
Get(url) == [verb |-> "GET", url |-> url, body |-> ""]
HexUrl(txid) == base_url \o "/tx/" \o txid \o "/hex"
OutspendUrl(outpoint) ==
    base_url \o "/tx/" \o outpoint[1] \o "/outspend/" \o ToString(outpoint[2])

\* Consensus hex encoding of a transaction, and its decoding; text that is no
\* encoding of a transaction does not decode.
HexOf(tx) == "hex(" \o tx \o ")"
InvalidHex == "zz"
NotDecoded == "not decoded"
hex_error == "odd length or bad character"
deserialize_hex(text) ==
    IF \E tx \in Transactions : HexOf(tx) = text
    THEN CHOOSE tx \in Transactions : HexOf(tx) = text
    ELSE NotDecoded

\* The decoded outspend answer; undecodable bodies have decodes = FALSE.
OutspendResponse(decodes, spent, txid) ==
    [decodes |-> decodes, spent |-> spent, txid |-> txid]
NoJson == OutspendResponse(FALSE, FALSE, NoTx)

\* An HTTP exchange: whether it completed, the status, the body text if it can
\* be read, and the body as an outspend answer.
HttpResponse(send, status, readable, text, json) ==
    [kind |-> "http", send |-> send, status |-> status, readable |-> readable,
     text |-> text, json |-> json]
TransportFailed == HttpResponse("err", 0, FALSE, "", NoJson)
ErrorBodies ==
    {HttpResponse("ok", 500, rd, "b1", NoJson) : rd \in BOOLEAN}
        \cup {HttpResponse("ok", 404, TRUE, "b1", NoJson)}
HexResponses ==
    {TransportFailed} \cup ErrorBodies
        \cup {HttpResponse("ok", 200, FALSE, "", NoJson)}
        \cup {HttpResponse("ok", 200, TRUE, t, NoJson) :
                  t \in {HexOf(tx) : tx \in Transactions} \cup {InvalidHex}}
OutspendResponses ==
    {TransportFailed} \cup ErrorBodies
        \cup {HttpResponse("ok", 200, FALSE, "", NoJson)}
        \cup {HttpResponse("ok", 200, TRUE, "json", j) :
                  j \in {NoJson}
                        \cup {OutspendResponse(TRUE, sp, t) :
                                  sp \in BOOLEAN, t \in WireTxids \cup {NoTx}}}

transport_error == "error sending request"
body_error == "error decoding response body"
IsSuccess(status) == status >= 200 /\ status <= 299
BodyOrPlaceholder(r) == IF r.readable THEN r.text ELSE "Failed to read body"
HttpFailure(r, url) ==
    Error("NetworkFailure",
          "HTTP " \o ToString(r.status) \o " for " \o url \o ": "
              \o BodyOrPlaceholder(r))
TransactionNotFound(txid) ==
    Error("NotFound", "Transaction " \o txid \o " not found")

\* Variants of the two mappings below: a 404 is not told apart from the other
\* error statuses, and undecodable hex is reported as a missing transaction.
EsploraClient_get_transaction_result_no404(txid, r) ==
    IF r.send = "err" THEN Err(Error("NetworkFailure", transport_error))
    ELSE IF ~IsSuccess(r.status) THEN Err(HttpFailure(r, HexUrl(txid)))
    ELSE IF ~r.readable THEN Err(Error("NetworkFailure", body_error))
    ELSE IF deserialize_hex(r.text) = NotDecoded
         THEN Err(Error("DataInconsistency", "Invalid hex: " \o hex_error))
    ELSE Ok(deserialize_hex(r.text))

EsploraClient_get_transaction_result_hexNotFound(txid, r) ==
    IF r.send = "err" THEN Err(Error("NetworkFailure", transport_error))
    ELSE IF r.status = 404 THEN Err(TransactionNotFound(txid))
    ELSE IF ~IsSuccess(r.status) THEN Err(HttpFailure(r, HexUrl(txid)))
    ELSE IF ~r.readable THEN Err(Error("NetworkFailure", body_error))
    ELSE IF deserialize_hex(r.text) = NotDecoded
         THEN Err(TransactionNotFound(txid))
    ELSE Ok(deserialize_hex(r.text))

\* get_transaction: what the call returns for the response to its request.
EsploraClient_get_transaction_result(txid, r) ==
    IF r.send = "err" THEN Err(Error("NetworkFailure", transport_error))
    ELSE IF r.status = 404 THEN Err(TransactionNotFound(txid))
    ELSE IF ~IsSuccess(r.status) THEN Err(HttpFailure(r, HexUrl(txid)))
    ELSE IF ~r.readable THEN Err(Error("NetworkFailure", body_error))
    ELSE IF deserialize_hex(r.text) = NotDecoded
         THEN Err(Error("DataInconsistency", "Invalid hex: " \o hex_error))
    ELSE Ok(deserialize_hex(r.text))

\* get_spending_transaction: what the call does with the response to the
\* outspend probe.  Fetch(txid) stands for going on to get_transaction(txid).
Fetch(txid) == [tag |-> "Fetch", tx |-> txid, err |-> NoError]
EsploraClient_outspend_result(outpoint, r) ==
    IF r.send = "err" THEN Err(Error("NetworkFailure", transport_error))
    ELSE IF r.status = 404 THEN Err(TransactionNotFound(outpoint[1]))
    ELSE IF ~IsSuccess(r.status) THEN Err(HttpFailure(r, OutspendUrl(outpoint)))
    ELSE IF ~r.json.decodes THEN Err(Error("DataInconsistency", body_error))
    ELSE IF ~r.json.spent THEN OkNone
    ELSE IF r.json.txid # NoTx THEN Fetch(r.json.txid)
    ELSE Err(Error("DataInconsistency",
                   "Outspend marked spent but no txid returned"))

\* Variant of the step below: a failed follow-up fetch is swallowed.
MapSome_ok(r) == IF r.tag = "Ok" THEN OkSome(r.tx) ELSE OkNone
\* .map(Some) on the result of the follow-up fetch.
MapSome(r) == IF r.tag = "Ok" THEN OkSome(r.tx) ELSE r

\* The one caller of the adapter specifications.
Clients == {"c1"}
decoratorVars ==
    <<cache, ttl, readers, writer, now, pc, op, arg, invoked, fetched,
      result, lastFetched, lastOk>>

\* get_transaction issues its request at once: no pacing delay precedes it.
EsploraClient_get_transaction_send(c) ==
    /\ pc[c] = "await"
    /\ op[c] = "get_transaction"
    /\ apc = "idle"
    /\ wire' = Append(wire, Get(HexUrl(arg[c][1])))
    /\ atxid' = arg[c][1]
    /\ apc' = "hex"
    /\ UNCHANGED <<resp, aret, decoratorVars, sourceVars>>

\* Variant of the step below: a request that failed in transport is sent again.
EsploraClient_get_transaction_response_retry(c, r) ==
    /\ pc[c] = "await"
    /\ apc = "hex"
    /\ resp' = r
    /\ IF r.send = "err" /\ Len(wire) < 4
       THEN /\ wire' = Append(wire, Get(HexUrl(atxid)))
            /\ UNCHANGED <<apc, aret>>
       ELSE /\ aret' = IF op[c] = "get_spending_transaction"
                       THEN MapSome(EsploraClient_get_transaction_result(atxid, r))
                       ELSE EsploraClient_get_transaction_result(atxid, r)
            /\ apc' = "returned"
            /\ UNCHANGED wire
    /\ UNCHANGED <<atxid, decoratorVars, sourceVars>>

\* The response to the hex request ends get_transaction; when it ran as the
\* follow-up of get_spending_transaction, its result is wrapped in Some.
EsploraClient_get_transaction_response(c, r) ==
    /\ pc[c] = "await"
    /\ apc = "hex"
    /\ resp' = r
    /\ aret' = IF op[c] = "get_spending_transaction"
               THEN MapSome(EsploraClient_get_transaction_result(atxid, r))
               ELSE EsploraClient_get_transaction_result(atxid, r)
    /\ apc' = "returned"
    /\ UNCHANGED <<wire, atxid, decoratorVars, sourceVars>>

\* get_spending_transaction sleeps, then probes the outspend endpoint.
EsploraClient_throttle(c) ==
    /\ pc[c] = "await"
    /\ op[c] = "get_spending_transaction"
    /\ apc = "idle"
    /\ wire' = Append(wire, Sleep)
    /\ apc' = "throttled"
    /\ UNCHANGED <<atxid, resp, aret, decoratorVars, sourceVars>>

EsploraClient_get_spending_transaction_send(c) ==
    /\ pc[c] = "await"
    /\ apc = "throttled"
    /\ wire' = Append(wire, Get(OutspendUrl(arg[c])))
    /\ apc' = "outspend"
    /\ UNCHANGED <<atxid, resp, aret, decoratorVars, sourceVars>>

\* Variant of the step below: the follow-up fetches the outpoint's own txid.
EsploraClient_get_spending_transaction_response_ownTxid(c, r) ==
    /\ pc[c] = "await"
    /\ apc = "outspend"
    /\ resp' = r
    /\ IF EsploraClient_outspend_result(arg[c], r).tag = "Fetch"
       THEN /\ wire' = Append(wire, Get(HexUrl(arg[c][1])))
            /\ atxid' = arg[c][1]
            /\ apc' = "hex"
            /\ UNCHANGED aret
       ELSE /\ aret' = EsploraClient_outspend_result(arg[c], r)
            /\ apc' = "returned"
            /\ UNCHANGED <<wire, atxid>>
    /\ UNCHANGED <<decoratorVars, sourceVars>>

\* The response to the probe: spent with a txid goes on to get_transaction of
\* that txid (whose request leaves at once); anything else ends the call.
EsploraClient_get_spending_transaction_response(c, r) ==
    /\ pc[c] = "await"
    /\ apc = "outspend"
    /\ resp' = r
    /\ IF EsploraClient_outspend_result(arg[c], r).tag = "Fetch"
       THEN /\ wire' =
                  Append(wire,
                         Get(HexUrl(EsploraClient_outspend_result(arg[c], r).tx)))
            /\ atxid' = EsploraClient_outspend_result(arg[c], r).tx
            /\ apc' = "hex"
            /\ UNCHANGED aret
       ELSE /\ aret' = EsploraClient_outspend_result(arg[c], r)
            /\ apc' = "returned"
            /\ UNCHANGED <<wire, atxid>>
    /\ UNCHANGED <<decoratorVars, sourceVars>>

\* The decorator's await of the wrapped adapter completes with what the
\* adapter returned.
inner_get_transaction(c) ==
    /\ apc = "returned"
    /\ get_transaction_fetched(c, aret)
    /\ apc' = "taken"
    /\ UNCHANGED <<wire, atxid, resp, aret, sourceVars>>

inner_get_spending_transaction(c) ==
    /\ apc = "returned"
    /\ get_spending_transaction_fetched(c, aret)
    /\ apc' = "taken"
    /\ UNCHANGED <<wire, atxid, resp, aret, sourceVars>>

\* The caller takes the result; the record of the adapter call goes with it.
ReturnToClient(c) ==
    /\ Return(c)
    /\ apc' = "idle"
    /\ wire' = <<>>
    /\ atxid' = NoTx
    /\ resp' = NoResponse
    /\ aret' = NoResult
    /\ UNCHANGED sourceVars

(* ---------------------------------------------------------------------- *)
(* The full-node adapter: BitcoinRpcClient                                 *)
(* ---------------------------------------------------------------------- *)
rpc_url == "http://127.0.0.1:8332"
Post(method) == [verb |-> "POST", url |-> rpc_url, body |-> method]

\* JSON values as they occur in the two fields of a response envelope.
Absent == "<absent>"
JsonNull == "null"
EmptyObject == "{}"
NonObject == "'boom'"
ErrorObject == "{code, message}"
RawTransaction(hex) == "{hex: '" \o hex \o "'}"
HexNotString == "{hex: 7}"
HexTexts == {HexOf(tx) : tx \in Transactions} \cup {InvalidHex}

\* .get("hex").and_then(as_str) of a result value.
hex_str(v) ==
    IF \E h \in HexTexts : RawTransaction(h) = v
    THEN CHOOSE h \in HexTexts : RawTransaction(h) = v
    ELSE Absent

\* A response envelope: the error field's shape with the code and message of
\* an error object (hasCode, hasMessage: present with the expected type), and
\* the result field.
Envelope(send, json, error, hasCode, code, hasMessage, message, res) ==
    [kind |-> "rpc", send |-> send, json |-> json, error |-> error,
     hasCode |-> hasCode, code |-> code, hasMessage |-> hasMessage,
     message |-> message, result |-> res]
ErrorShapes == {Absent, JsonNull, EmptyObject, NonObject}
ErrorCodes == {-5, -20, -8, -22, -32603, -1, -28}
ResultShapes ==
    {Absent, JsonNull, EmptyObject, HexNotString}
        \cup {RawTransaction(h) : h \in HexTexts}
Envelopes ==
    {Envelope("err", FALSE, Absent, FALSE, 0, FALSE, "", Absent),
     Envelope("ok", FALSE, Absent, FALSE, 0, FALSE, "", Absent)}
        \cup {Envelope("ok", TRUE, e, FALSE, 0, FALSE, "", rs) :
                  e \in ErrorShapes, rs \in ResultShapes}
        \cup {Envelope("ok", TRUE, ErrorObject, TRUE, cd, hm, "m1", rs) :
                  cd \in ErrorCodes, hm \in BOOLEAN,
                  rs \in {Absent, JsonNull, RawTransaction(HexOf("tx1"))}}
        \cup {Envelope("ok", TRUE, ErrorObject, FALSE, 0, hm, "m1", rs) :
                  hm \in BOOLEAN, rs \in {Absent, JsonNull}}

\* Variant of the mapping below: the unlisted codes lose code and message.
rpc_error_mapping_bare(code, message) ==
    IF code \in {-5, -20} THEN Error("NotFound", message)
    ELSE IF code \in {-8, -22} THEN Error("InvalidInput", message)
    ELSE IF code = -32603 THEN Error("Other", message)
    ELSE Error("Other", "RPC error")

\* The match on the error code.
rpc_error_mapping(code, message) ==
    IF code \in {-5, -20} THEN Error("NotFound", message)
    ELSE IF code \in {-8, -22} THEN Error("InvalidInput", message)
    ELSE IF code = -32603 THEN Error("Other", message)
    ELSE Error("Other", "RPC error " \o ToString(code) \o ": " \o message)

code_or_zero(r) == IF r.hasCode THEN r.code ELSE 0
message_or_unknown(r) == IF r.hasMessage THEN r.message ELSE "Unknown RPC Error"

\* rpc_call: what the call returns for the response to its request.  The
\* result field is taken as it is whenever the key is present, null included.
rpc_call_result(r) ==
    IF r.send = "err" THEN Err(Error("NetworkFailure", transport_error))
    ELSE IF ~r.json THEN Err(Error("NetworkFailure", body_error))
    ELSE IF r.error = ErrorObject
         THEN Err(rpc_error_mapping(code_or_zero(r), message_or_unknown(r)))
    ELSE IF r.result = Absent
         THEN Err(Error("DataInconsistency", "No result found in response"))
    ELSE Ok(r.result)

\* get_transaction: the hex field of the result, decoded.
BitcoinRpcClient_get_transaction_result(txid, r) ==
    IF rpc_call_result(r).tag = "Err" THEN rpc_call_result(r)
    ELSE IF hex_str(rpc_call_result(r).tx) = Absent
         THEN Err(Error("DataInconsistency",
                        "RPC response is missing 'hex' field or type is invalid"))
    ELSE IF deserialize_hex(hex_str(rpc_call_result(r).tx)) = NotDecoded
         THEN Err(Error("DataInconsistency",
                        "Failed to deserialize Hex "
                            \o hex_str(rpc_call_result(r).tx)
                            \o ", for Txid " \o txid \o ": " \o hex_error))
    ELSE Ok(deserialize_hex(hex_str(rpc_call_result(r).tx)))

RpcCall == "BitcoinRpcClient::rpc_call"
RpcGetTransaction == "BitcoinRpcClient::get_transaction"
RpcStubOps ==
    {"BitcoinRpcClient::get_spending_transaction",
     "BitcoinRpcClient::get_address_transactions",
     "BitcoinRpcClient::get_transactions_batch",
     "BitcoinRpcClient::get_spending_transactions_batch"}
Methods == {"getblockcount"}

\* The one request of an rpc_call, made directly or by get_transaction.
BitcoinRpcClient_rpc_call_send(c) ==
    /\ pc[c] = "called"
    /\ op[c] \in {RpcCall, RpcGetTransaction}
    /\ apc = "idle"
    /\ wire' = Append(wire,
                      Post(IF op[c] = RpcCall
                           THEN arg[c][1]
                           ELSE "getrawtransaction"))
    /\ apc' = "rpc"
    /\ pc' = [pc EXCEPT ![c] = "await"]
    /\ UNCHANGED <<atxid, resp, aret>>
    /\ UNCHANGED <<cache, ttl, now, op, arg, invoked, fetched, result>>
    /\ UNCHANGED <<lockVars, history, sourceVars>>

\* The response ends the call.
BitcoinRpcClient_rpc_call_response(c, r) ==
    /\ pc[c] = "await"
    /\ apc = "rpc"
    /\ resp' = r
    /\ result' =
           [result EXCEPT
               ![c] = IF op[c] = RpcCall
                      THEN rpc_call_result(r)
                      ELSE BitcoinRpcClient_get_transaction_result(arg[c][1], r)]
    /\ aret' = result'[c]
    /\ apc' = "taken"
    /\ pc' = [pc EXCEPT ![c] = "done"]
    /\ UNCHANGED <<wire, atxid>>
    /\ UNCHANGED <<cache, ttl, now, op, arg, invoked, fetched>>
    /\ UNCHANGED <<lockVars, history, sourceVars>>

\* The four operations the adapter leaves as todo!().
BitcoinRpcClient_todo(c) ==
    /\ pc[c] = "called"
    /\ op[c] \in RpcStubOps
    /\ result' = [result EXCEPT ![c] = Panicked]
    /\ pc' = [pc EXCEPT ![c] = "done"]
    /\ UNCHANGED <<cache, ttl, now, op, arg, invoked, fetched>>
    /\ UNCHANGED <<lockVars, history, outside>>

(* ---------------------------------------------------------------------- *)
(* The adapters at work: one client calls the decorator wrapped around the *)
(* explorer adapter, or the full-node adapter directly                     *)
(* ---------------------------------------------------------------------- *)
NextAdapters ==
    \/ \E c \in Clients, t \in Txids :
           Call(c, "get_transaction", <<t>>) /\ UNCHANGED outside
    \/ \E c \in Clients, o \in OutPoints :
           Call(c, "get_spending_transaction", o) /\ UNCHANGED outside
    \/ \E c \in Clients : get_transaction_read(c) /\ UNCHANGED outside
    \/ \E c \in Clients : get_transaction_lookup(c) /\ UNCHANGED outside
    \/ \E c \in Clients : EsploraClient_get_transaction_send(c)
    \/ \E c \in Clients, r \in HexResponses :
           EsploraClient_get_transaction_response(c, r)
    \/ \E c \in Clients : inner_get_transaction(c)
    \/ \E c \in Clients : get_transaction_write(c) /\ UNCHANGED outside
    \/ \E c \in Clients : get_transaction_insert(c) /\ UNCHANGED outside
    \/ \E c \in Clients :
           get_spending_transaction_read(c) /\ UNCHANGED outside
    \/ \E c \in Clients :
           get_spending_transaction_lookup(c) /\ UNCHANGED outside
    \/ \E c \in Clients : EsploraClient_throttle(c)
    \/ \E c \in Clients : EsploraClient_get_spending_transaction_send(c)
    \/ \E c \in Clients, r \in OutspendResponses :
           EsploraClient_get_spending_transaction_response(c, r)
    \/ \E c \in Clients : inner_get_spending_transaction(c)
    \/ \E c \in Clients :
           get_spending_transaction_write(c) /\ UNCHANGED outside
    \/ \E c \in Clients :
           get_spending_transaction_insert(c) /\ UNCHANGED outside
    \/ \E c \in Clients, m \in Methods :
           Call(c, RpcCall, <<m>>) /\ UNCHANGED outside
    \/ \E c \in Clients, t \in Txids :
           Call(c, RpcGetTransaction, <<t>>) /\ UNCHANGED outside
    \/ \E c \in Clients, o \in RpcStubOps :
           Call(c, o, NoArg) /\ UNCHANGED outside
    \/ \E c \in Clients : BitcoinRpcClient_rpc_call_send(c)
    \/ \E c \in Clients, r \in Envelopes :
           BitcoinRpcClient_rpc_call_response(c, r)
    \/ \E c \in Clients : BitcoinRpcClient_todo(c)
    \/ \E c \in Clients : ReturnToClient(c)
    \/ Tick /\ UNCHANGED outside

SpecAdapters == Init /\ [][NextAdapters]_vars

(* ---------------------------------------------------------------------- *)
(* Fair scheduling: the lock serves its waiters, the runtime polls every   *)
(* task that can go on, and every call of the wrapped source returns       *)
(* ---------------------------------------------------------------------- *)
\* What the wrapped source answers here: one answer of each shape, since the
\* guards are taken and dropped the same way whatever the values are.
Outcomes(o) ==
    IF o = "get_transaction"
    THEN {Ok("tx1"), Err([kind |-> "RateLimited", detail |-> ""])}
    ELSE {OkSome("tx1"), OkNone, Err([kind |-> "RateLimited", detail |-> ""])}

source_returns(c) ==
    \/ \E ans \in Outcomes("get_transaction") : get_transaction_fetched(c, ans)
    \/ \E ans \in Outcomes("get_spending_transaction") :
           get_spending_transaction_fetched(c, ans)

NextFair ==
    \/ \E c \in Callers, t \in Txids :
           Call(c, "get_transaction", <<t>>) /\ UNCHANGED outside
    \/ \E c \in Callers, o \in OutPoints :
           Call(c, "get_spending_transaction", o) /\ UNCHANGED outside
    \/ \E c \in Callers : get_transaction_read(c) /\ UNCHANGED outside
    \/ \E c \in Callers : get_transaction_lookup(c) /\ UNCHANGED outside
    \/ \E c \in Callers : source_returns(c) /\ UNCHANGED outside
    \/ \E c \in Callers : get_transaction_write(c) /\ UNCHANGED outside
    \/ \E c \in Callers : get_transaction_insert(c) /\ UNCHANGED outside
    \/ \E c \in Callers :
           get_spending_transaction_read(c) /\ UNCHANGED outside
    \/ \E c \in Callers :
           get_spending_transaction_lookup(c) /\ UNCHANGED outside
    \/ \E c \in Callers :
           get_spending_transaction_write(c) /\ UNCHANGED outside
    \/ \E c \in Callers :
           get_spending_transaction_insert(c) /\ UNCHANGED outside
    \/ \E c \in Callers : Return(c) /\ UNCHANGED outside
    \/ Tick /\ UNCHANGED outside

\* Every step named here changes pc, so fairness is stated on pc.  The lock
\* hands itself to each waiter in turn, hence strong fairness for the two
\* acquisitions.
Scheduled(c) ==
    /\ SF_pc(get_transaction_read(c) /\ UNCHANGED outside)
    /\ SF_pc(get_spending_transaction_read(c) /\ UNCHANGED outside)
    /\ SF_pc(get_transaction_write(c) /\ UNCHANGED outside)
    /\ SF_pc(get_spending_transaction_write(c) /\ UNCHANGED outside)
    /\ WF_pc(get_transaction_lookup(c) /\ UNCHANGED outside)
    /\ WF_pc(get_spending_transaction_lookup(c) /\ UNCHANGED outside)
    /\ WF_pc(source_returns(c) /\ UNCHANGED outside)
    /\ WF_pc(get_transaction_insert(c) /\ UNCHANGED outside)
    /\ WF_pc(get_spending_transaction_insert(c) /\ UNCHANGED outside)

SpecFair ==
    Init /\ [][NextFair]_vars /\ \A c \in Callers : Scheduled(c)

(* ---------------------------------------------------------------------- *)
(* The decorator around a source whose answers never change                *)
(* ---------------------------------------------------------------------- *)
\* The operation a key belongs to, and the sources that answer each query the
\* same way every time.
OpOf(k) ==
    IF k[1] = "Transaction" THEN "get_transaction" ELSE "get_spending_transaction"
StableSources ==
    {f \in [CacheKey -> InnerAnswers("get_transaction")
                            \cup InnerAnswers("get_spending_transaction")] :
        \A k \in CacheKey : f[k] \in InnerAnswers(OpOf(k))}

InitStable ==
    /\ ttl \in 0..MaxTTL
    /\ Constructed
    /\ source \in StableSources

\* The wrapped source returns its fixed answer to the query.
stable_source_returns(c) ==
    \/ /\ pc[c] = "await"
       /\ op[c] = "get_transaction"
       /\ get_transaction_fetched(c, source[Key(c)])
    \/ /\ pc[c] = "await"
       /\ op[c] = "get_spending_transaction"
       /\ get_spending_transaction_fetched(c, source[Key(c)])

NextStable ==
    \/ \E c \in Callers, t \in Txids :
           Call(c, "get_transaction", <<t>>) /\ UNCHANGED outside
    \/ \E c \in Callers, o \in OutPoints :
           Call(c, "get_spending_transaction", o) /\ UNCHANGED outside
    \/ \E c \in Callers : get_transaction_read(c) /\ UNCHANGED outside
    \/ \E c \in Callers : get_transaction_lookup(c) /\ UNCHANGED outside
    \/ \E c \in Callers : stable_source_returns(c) /\ UNCHANGED outside
    \/ \E c \in Callers : get_transaction_write(c) /\ UNCHANGED outside
    \/ \E c \in Callers : get_transaction_insert(c) /\ UNCHANGED outside
    \/ \E c \in Callers : get_spending_transaction_read(c) /\ UNCHANGED outside
    \/ \E c \in Callers :
           get_spending_transaction_lookup(c) /\ UNCHANGED outside
    \/ \E c \in Callers : get_spending_transaction_write(c) /\ UNCHANGED outside
    \/ \E c \in Callers :
           get_spending_transaction_insert(c) /\ UNCHANGED outside
    \/ \E c \in Callers : Return(c) /\ UNCHANGED outside
    \/ Tick /\ UNCHANGED outside

SpecStable == InitStable /\ [][NextStable]_vars

(* ---------------------------------------------------------------------- *)
(* The decorator around an arbitrary source, with a record of every        *)
(* transaction the source has returned for each query                      *)
(* ---------------------------------------------------------------------- *)
Recorded(k, ans) ==
    IF ans.tag \in {"Ok", "OkSome"}
    THEN [returned EXCEPT ![k] = @ \cup {ans.tx}]
    ELSE returned

source_returns_recorded(c, ans) ==
    /\ pc[c] = "await"
    /\ \/ /\ op[c] = "get_transaction"
          /\ ans \in InnerAnswers("get_transaction")
          /\ get_transaction_fetched(c, ans)
       \/ /\ op[c] = "get_spending_transaction"
          /\ ans \in InnerAnswers("get_spending_transaction")
          /\ get_spending_transaction_fetched(c, ans)
    /\ returned' = Recorded(Key(c), ans)
    /\ UNCHANGED <<adapterVars, source>>

NextRecorded ==
    \/ \E c \in Callers, t \in Txids :
           Call(c, "get_transaction", <<t>>) /\ UNCHANGED outside
    \/ \E c \in Callers, o \in OutPoints :
           Call(c, "get_spending_transaction", o) /\ UNCHANGED outside
    \/ \E c \in Callers : get_transaction_read(c) /\ UNCHANGED outside
    \/ \E c \in Callers : get_transaction_lookup(c) /\ UNCHANGED outside
    \/ \E c \in Callers,
          ans \in InnerAnswers("get_transaction")
                      \cup InnerAnswers("get_spending_transaction") :
           source_returns_recorded(c, ans)
    \/ \E c \in Callers : get_transaction_write(c) /\ UNCHANGED outside
    \/ \E c \in Callers : get_transaction_insert(c) /\ UNCHANGED outside
    \/ \E c \in Callers : get_spending_transaction_read(c) /\ UNCHANGED outside
    \/ \E c \in Callers :
           get_spending_transaction_lookup(c) /\ UNCHANGED outside
    \/ \E c \in Callers : get_spending_transaction_write(c) /\ UNCHANGED outside
    \/ \E c \in Callers :
           get_spending_transaction_insert(c) /\ UNCHANGED outside
    \/ \E c \in Callers : Return(c) /\ UNCHANGED outside
    \/ Tick /\ UNCHANGED outside

SpecRecorded == Init /\ [][NextRecorded]_vars

(* ---------------------------------------------------------------------- *)
(* The decorator called by one client over a longer stretch of time, so    *)
(* that an entry can be hit at an age above zero and expire afterwards     *)
(* ---------------------------------------------------------------------- *)
InitSequential ==
    /\ ttl \in 0..MaxClock
    /\ Constructed
    /\ source = AnySource

TickSequential ==
    /\ now < MaxClock
    /\ now' = now + 1
    /\ UNCHANGED <<cache, ttl, pc, locals, lockVars, history>>

NextSequential ==
    \/ \E c \in Clients, t \in Txids :
           Call(c, "get_transaction", <<t>>) /\ UNCHANGED outside
    \/ \E c \in Clients, o \in OutPoints :
           Call(c, "get_spending_transaction", o) /\ UNCHANGED outside
    \/ \E c \in Clients : get_transaction_read(c) /\ UNCHANGED outside
    \/ \E c \in Clients : get_transaction_lookup(c) /\ UNCHANGED outside
    \/ \E c \in Clients, ans \in InnerAnswers("get_transaction") :
           get_transaction_fetched(c, ans) /\ UNCHANGED outside
    \/ \E c \in Clients : get_transaction_write(c) /\ UNCHANGED outside
    \/ \E c \in Clients : get_transaction_insert(c) /\ UNCHANGED outside
    \/ \E c \in Clients : get_spending_transaction_read(c) /\ UNCHANGED outside
    \/ \E c \in Clients :
           get_spending_transaction_lookup(c) /\ UNCHANGED outside
    \/ \E c \in Clients, ans \in InnerAnswers("get_spending_transaction") :
           get_spending_transaction_fetched(c, ans) /\ UNCHANGED outside
    \/ \E c \in Clients : get_spending_transaction_write(c) /\ UNCHANGED outside
    \/ \E c \in Clients :
           get_spending_transaction_insert(c) /\ UNCHANGED outside
    \/ \E c \in Clients : Return(c) /\ UNCHANGED outside
    \/ TickSequential /\ UNCHANGED outside

SpecSequential == InitSequential /\ [][NextSequential]_vars

(* ---------------------------------------------------------------------- *)
(* Steps of a call, as seen from outside                                   *)
(* ---------------------------------------------------------------------- *)
\* Caller c performs its lookup, receives the wrapped source's answer, or
\* performs its insert in this step.
LookupStep(c) == pc[c] = "check" /\ pc'[c] # "check"
FetchedStep(c) == pc[c] = "await" /\ pc'[c] # "await"
InsertStep(c) == pc[c] = "insert" /\ pc'[c] # "insert"

\* The map slot of a query, written out independently of the key constructors.
TransactionSlot(t) == <<"Transaction", t, -1>>
SpendingSlot(o) == <<"Spending", o[1], o[2]>>
Slot(c) ==
    IF op[c] = "get_transaction"
    THEN TransactionSlot(arg[c][1])
    ELSE SpendingSlot(arg[c])

\* The age of the entry in a slot, and whether the slot holds an entry younger
\* than the TTL.
Age(k) == now - cache[k].inserted_at
Fresh(k) == cache[k] # NoEntry /\ Age(k) < ttl

(* ---------------------------------------------------------------------- *)
(* C1  Idempotence of get_transaction                                      *)
(* ---------------------------------------------------------------------- *)
\* C1: once get_transaction(t) has returned Ok(tx), a further
\* get_transaction(t) whose lookup finds the entry younger than the TTL
\* returns Ok of that same tx and does not invoke the wrapped source.
C1_Idempotence ==
    [][\A c \in Callers :
          (/\ LookupStep(c)
           /\ op[c] = "get_transaction"
           /\ lastOk[Slot(c)] # NoTx
           /\ Fresh(Slot(c)))
          => (/\ pc'[c] = "done"
              /\ result'[c] = Ok(lastOk[Slot(c)])
              /\ invoked'[c] = 0)]_vars

\* A get_transaction call has been served from the cache.
C1_Witness ==
    \E c \in Callers :
        /\ pc[c] = "done"
        /\ op[c] = "get_transaction"
        /\ invoked[c] = 0
        /\ result[c] = Ok(lastOk[Slot(c)])
        /\ result[c].tx \in Transactions

(* ---------------------------------------------------------------------- *)
(* C2  TTL boundary                                                        *)
(* ---------------------------------------------------------------------- *)
C2_Lookup ==
    \A c \in Callers :
        (LookupStep(c) /\ cache[Slot(c)] # NoEntry)
        => IF Age(Slot(c)) < ttl
           THEN /\ pc'[c] = "done"
                /\ invoked'[c] = 0
                /\ result'[c].tag \in {"Ok", "OkSome"}
                /\ result'[c].tx = cache[Slot(c)].transaction
           ELSE /\ pc'[c] = "await"
                /\ invoked'[c] = 1
                /\ result'[c] = NoResult

C2_Overwrite ==
    \A c \in Callers :
        /\ (FetchedStep(c) /\ fetched'[c].tag \in {"Ok", "OkSome"})
           => pc'[c] = "write"
        /\ InsertStep(c)
           => /\ cache'[Slot(c)] = CachedEntry(fetched[c].tx, now)
              /\ result'[c].tx = fetched[c].tx
              /\ invoked'[c] = 1

\* C2: a lookup of an existing entry at age < TTL is a hit that does not invoke
\* the wrapped source; at age >= TTL it is a miss that invokes the wrapped
\* source once and, on success, overwrites the entry with the fetched
\* transaction and the current time; no entry of age >= TTL is returned.
C2_TTLBoundary ==
    /\ [][C2_Lookup]_vars
    /\ [][C2_Overwrite]_vars
    /\ [](\A c \in Callers : invoked[c] <= 1)

\* A caller holds the write lock and is about to overwrite an entry whose age
\* is exactly the TTL.
C2_Witness ==
    \E c \in Callers :
        /\ pc[c] = "insert"
        /\ ttl > 0
        /\ cache[Slot(c)] # NoEntry
        /\ Age(Slot(c)) = ttl

(* ---------------------------------------------------------------------- *)
(* C3  Negative non-caching                                                *)
(* ---------------------------------------------------------------------- *)
C3_NoneNotStored ==
    \A c \in Callers :
        (FetchedStep(c) /\ fetched'[c] = OkNone)
        => /\ pc'[c] = "done"
           /\ result'[c] = OkNone
           /\ invoked'[c] = 1
           /\ cache' = cache

C3_AlwaysAsked ==
    \A c \in Callers :
        (/\ pc[c] = "done"
         /\ op[c] = "get_spending_transaction"
         /\ lastFetched[Slot(c)] = NoTx)
        => /\ invoked[c] = 1
           /\ result[c].tag \in {"OkNone", "Err"}
           /\ cache[Slot(c)] = NoEntry

\* C3: a get_spending_transaction call that the wrapped source answers with
\* Ok(None) has invoked it exactly once, returns Ok(None) and leaves the map
\* unchanged; and as long as the wrapped source has never reported the
\* outpoint spent, every call for it invokes the wrapped source exactly once
\* and the outpoint has no entry.
C3_NegativeNonCaching ==
    /\ [][C3_NoneNotStored]_vars
    /\ [](C3_AlwaysAsked)

\* Both callers have asked for the same never-spent outpoint, one after the
\* other's answer: each was answered Ok(None) by its own invocation.
C3_Witness ==
    \E c, d \in Callers :
        /\ c # d
        /\ pc[c] = "done" /\ pc[d] = "done"
        /\ op[c] = "get_spending_transaction"
        /\ op[d] = "get_spending_transaction"
        /\ arg[c] = arg[d]
        /\ result[c] = OkNone /\ result[d] = OkNone
        /\ invoked[c] = 1 /\ invoked[d] = 1
        /\ lastFetched[Slot(c)] = NoTx

(* ---------------------------------------------------------------------- *)
(* C4  Positive caching                                                    *)
(* ---------------------------------------------------------------------- *)
C4_FirstCall ==
    \A c \in Callers :
        op[c] = "get_spending_transaction"
        => /\ (LookupStep(c) /\ cache[Slot(c)] = NoEntry)
              => (pc'[c] = "await" /\ invoked'[c] = 1)
           /\ (FetchedStep(c) /\ fetched'[c].tag = "OkSome")
              => pc'[c] = "write"
           /\ InsertStep(c)
              => /\ fetched[c].tag = "OkSome"
                 /\ cache'[SpendingSlot(arg[c])].transaction = fetched[c].tx
                 /\ result'[c] = fetched[c]

C4_SecondCall ==
    \A c \in Callers :
        (/\ LookupStep(c)
         /\ op[c] = "get_spending_transaction"
         /\ lastOk[Slot(c)] # NoTx
         /\ Fresh(Slot(c)))
        => /\ pc'[c] = "done"
           /\ invoked'[c] = 0
           /\ result'[c] = OkSome(lastOk[Slot(c)])

\* C4: a get_spending_transaction call that finds no entry invokes the wrapped
\* source, and when that answers Some(tx) the call stores tx under
\* Spending(outpoint) and returns Some(tx); a later call for the outpoint
\* whose lookup finds the entry younger than the TTL returns Some of the same
\* tx without invoking the wrapped source.
C4_PositiveCaching ==
    /\ [][C4_FirstCall]_vars
    /\ [][C4_SecondCall]_vars

\* A get_spending_transaction call has been served from the cache.
C4_Witness ==
    \E c \in Callers :
        /\ pc[c] = "done"
        /\ op[c] = "get_spending_transaction"
        /\ invoked[c] = 0
        /\ result[c] = OkSome(cache[SpendingSlot(arg[c])].transaction)
        /\ result[c].tx \in Transactions

(* ---------------------------------------------------------------------- *)
(* C5  Failure passthrough                                                 *)
(* ---------------------------------------------------------------------- *)
C5_ErrorReturned ==
    \A c \in Callers :
        (FetchedStep(c) /\ fetched'[c].tag = "Err")
        => /\ pc'[c] = "done"
           /\ result'[c] = fetched'[c]
           /\ invoked'[c] = 1
           /\ cache' = cache

C5_OnlySuccessWrites ==
    cache' # cache
    => \E c \in Callers :
           /\ InsertStep(c)
           /\ fetched[c].tag \in {"Ok", "OkSome"}
           /\ result'[c].tag \in {"Ok", "OkSome"}

C5_FailedCall ==
    \A c \in Callers :
        (pc[c] = "done" /\ result[c].tag = "Err")
        => /\ result[c] = fetched[c]
           /\ result[c].err \in BlockchainError
           /\ invoked[c] = 1

\* C5: when the wrapped source answers a decorator call with an error, the call
\* returns that same error (kind and detail), has invoked the wrapped source
\* once, and no step of it changes the map: the map changes only in the insert
\* of a call whose fetch succeeded.
C5_FailurePassthrough ==
    /\ [][C5_ErrorReturned]_vars
    /\ [][C5_OnlySuccessWrites]_vars
    /\ [](C5_FailedCall)

\* A refetch of an existing entry has failed and the entry is still there.
C5_Witness ==
    \E c \in Callers :
        /\ pc[c] = "done"
        /\ op[c] \in CachedOps
        /\ result[c].tag = "Err"
        /\ result[c].err = [kind |-> "NetworkFailure", detail |-> "d2"]
        /\ cache[Slot(c)] # NoEntry

(* ---------------------------------------------------------------------- *)
(* C6  Key-space disjointness                                              *)
(* ---------------------------------------------------------------------- *)
C6_NoCrossHit ==
    \A c \in Callers :
        LookupStep(c)
        => /\ (/\ op[c] = "get_spending_transaction"
               /\ cache[SpendingSlot(arg[c])] = NoEntry)
              => (pc'[c] = "await" /\ invoked'[c] = 1)
           /\ (/\ op[c] = "get_transaction"
               /\ cache[TransactionSlot(arg[c][1])] = NoEntry)
              => (pc'[c] = "await" /\ invoked'[c] = 1)

C6_NoCrossWrite ==
    \A c \in Callers :
        InsertStep(c)
        => /\ op[c] = "get_transaction"
              => \A o \in OutPoints :
                     cache'[SpendingSlot(o)] = cache[SpendingSlot(o)]
           /\ op[c] = "get_spending_transaction"
              => \A t \in Txids :
                     cache'[TransactionSlot(t)] = cache[TransactionSlot(t)]

\* C6: a get_spending_transaction(o) lookup is a miss that goes to the wrapped
\* source whenever nothing is stored under Spending(o), whatever is stored
\* under Transaction(txid of o), and likewise get_transaction(X) whenever
\* nothing is stored under Transaction(X); an insert by one operation does not
\* touch the entries of the other.
C6_KeySpaceDisjoint ==
    /\ [][C6_NoCrossHit]_vars
    /\ [][C6_NoCrossWrite]_vars

\* Right after get_transaction(X) has stored X, get_spending_transaction for an
\* outpoint of X has missed and is waiting for the wrapped source.
C6_Witness ==
    \E c \in Callers, o \in OutPoints :
        /\ pc[c] = "await"
        /\ op[c] = "get_spending_transaction"
        /\ arg[c] = o
        /\ invoked[c] = 1
        /\ Fresh(TransactionSlot(o[1]))
        /\ cache[SpendingSlot(o)] = NoEntry

(* ---------------------------------------------------------------------- *)
(* C7  Only found results are materialized                                 *)
(* ---------------------------------------------------------------------- *)
\* C7: every key of the map is a query for which the wrapped source has
\* returned a transaction to a decorator call (Ok(tx), Ok(Some(tx))), and the
\* stored value is a transaction; a query that only ever produced errors or
\* Ok(None) has no key.
C7_KeysAreFound ==
    \A k \in CacheKey :
        cache[k] # NoEntry
        => /\ lastFetched[k] \in Transactions
           /\ cache[k].transaction \in Transactions

\* One key is stored while a call for the other key has ended in an error or in
\* Ok(None) and that key has no entry.
C7_Witness ==
    \E c \in Callers :
        /\ pc[c] = "done"
        /\ op[c] \in CachedOps
        /\ result[c].tag \in {"Err", "OkNone"}
        /\ cache[Slot(c)] = NoEntry
        /\ \E k \in CacheKey : cache[k] # NoEntry

(* ---------------------------------------------------------------------- *)
(* C8  Stampede                                                            *)
(* ---------------------------------------------------------------------- *)
\* Every caller has returned from its call (or has not started one).
AllReturned == \A c \in Callers : pc[c] \in {"idle", "done"}

\* C8 as stated: once all callers have returned, every entry holds the result
\* of the wrapped-source fetch for its key that completed most recently.
C8_MostRecentlyCompleted ==
    AllReturned
    => \A k \in CacheKey :
           cache[k] # NoEntry => cache[k].transaction = lastFetched[k]

C8_InsertWins ==
    \A c \in Callers :
        InsertStep(c)
        => /\ cache'[Slot(c)] = CachedEntry(fetched[c].tx, now)
           /\ \A k \in CacheKey \ {Slot(c)} : cache'[k] = cache[k]

C8_HoldsLastInsert ==
    \A k \in CacheKey :
        cache[k] # NoEntry => cache[k].transaction = lastOk[k]

\* C8 (amended): every insert overwrites the entry of its key with the
\* inserting caller's own fetched transaction, so once all racing callers have
\* returned the entry holds the result of the caller whose insert ran last
\* (last write wins), which is the transaction the decorator handed back last
\* for that key.
C8_LastWriteWins ==
    /\ [][C8_InsertWins]_vars
    /\ [](C8_HoldsLastInsert)

\* Two callers missed the same key, fetched different transactions and both
\* inserted; the entry holds the one whose fetch completed first.
C8_Witness ==
    \E c, d \in Callers :
        /\ c # d
        /\ pc[c] = "done" /\ pc[d] = "done"
        /\ op[c] \in CachedOps /\ op[c] = op[d] /\ arg[c] = arg[d]
        /\ invoked[c] = 1 /\ invoked[d] = 1
        /\ result[c].tx \in Transactions /\ result[d].tx \in Transactions
        /\ result[c].tx # result[d].tx
        /\ cache[Slot(c)].transaction = result[c].tx
        /\ lastFetched[Slot(c)] = result[d].tx

(* ---------------------------------------------------------------------- *)
(* C9  Pass-through operations                                             *)
(* ---------------------------------------------------------------------- *)
\* C9: a finished get_address_transactions, get_transactions_batch or
\* get_spending_transactions_batch call has invoked the wrapped source exactly
\* once and returns the wrapped source's Result.
C9_PassThrough ==
    \A c \in Callers :
        (pc[c] = "done" /\ op[c] \in StubOps)
        => /\ invoked[c] = 1
           /\ result[c] = fetched[c]
           /\ result[c].tag \in {"Ok", "Err"}

(* ---------------------------------------------------------------------- *)
(* C10  Every operation returns Ok or Err                                  *)
(* ---------------------------------------------------------------------- *)
\* C10: every finished call of any of the five operations has returned Ok(value)
\* or Err of exactly one BlockchainError; none has ended in a panic.
C10_ReturnsResult ==
    \A c \in Callers :
        pc[c] = "done"
        => \/ result[c].tag \in {"Ok", "OkSome", "OkNone"}
           \/ result[c].tag = "Err" /\ result[c].err \in BlockchainError

-----------------------------------------------------------------------------
\* C18: the cache lock is never held while the wrapped source is called.  A
\* caller waiting for the wrapped source holds neither guard; the read guard is
\* held only during the lookup and the write guard only during the insert; the
\* write guard is taken only by a caller whose fetch has come back with a
\* transaction; and the section under the write guard does not call the
\* wrapped source: it stores the entry, releases the guard and returns.
C18_GuardsScoped ==
    \A c \in Callers :
        /\ pc[c] = "await" => c \notin readers /\ writer # c
        /\ c \in readers => pc[c] = "check"
        /\ writer = c => pc[c] = "insert"

C18_WriteAfterReturn ==
    \A c \in Callers :
        writer # c /\ writer' = c =>
            /\ pc[c] = "write"
            /\ invoked[c] = 1
            /\ fetched[c].tag \in {"Ok", "OkSome"}

C18_WriteSectionOnlyInserts ==
    \A c \in Callers :
        InsertStep(c) =>
            /\ writer = c /\ writer' = NoCaller
            /\ invoked' = invoked
            /\ pc'[c] = "done"
            /\ \A k \in CacheKey \ {Slot(c)} : cache'[k] = cache[k]

C18_NoLockAcrossSource ==
    /\ [](C18_GuardsScoped)
    /\ [][C18_WriteAfterReturn /\ C18_WriteSectionOnlyInserts]_vars

\* One caller waits for the wrapped source while the other holds the write
\* guard.
C18_Witness ==
    /\ pc["c1"] = "await"
    /\ invoked["c1"] = 1
    /\ writer = "c2"
    /\ pc["c2"] = "insert"

-----------------------------------------------------------------------------
\* C20: fetches are not deduplicated.  Every lookup that misses invokes the
\* wrapped source, whatever the other callers are doing, and every caller
\* between its miss and its return has invoked the wrapped source exactly
\* once: k callers that miss one key together make k invocations.
C20_MissInvokes ==
    \A c \in Callers :
        LookupStep(c) /\ op[c] \in CachedOps /\ ~Fresh(Slot(c)) =>
            /\ pc'[c] = "await"
            /\ invoked'[c] = invoked[c] + 1

C20_OncePerMiss ==
    \A c \in Callers :
        /\ pc[c] \in {"await", "write", "insert"} => invoked[c] = 1
        /\ pc[c] \in {"called", "check"} => invoked[c] = 0
        /\ pc[c] = "done" /\ fetched[c] # NoResult => invoked[c] = 1

C20_NoDeduplication ==
    /\ [](C20_OncePerMiss)
    /\ [][C20_MissInvokes]_vars

\* Both callers have missed the same key and each has its own fetch in
\* flight.
C20_Witness ==
    /\ pc["c1"] = "await" /\ pc["c2"] = "await"
    /\ op["c1"] = op["c2"] /\ arg["c1"] = arg["c2"]
    /\ invoked["c1"] = 1 /\ invoked["c2"] = 1

(* ---------------------------------------------------------------------- *)
(* The adapters, as seen from outside                                      *)
(* ---------------------------------------------------------------------- *)
\* The adapter call has returned (to the decorator or to the client).
AdapterReturned == apc \in {"returned", "taken"}
LastRequest == wire[Len(wire)]
\* The last request asked the explorer about txid t: its hex, or an outspend.
HexRequest(t) == "https://mempool.space/api/tx/" \o t \o "/hex"
OutspendRequest(t, v) ==
    "https://mempool.space/api/tx/" \o t \o "/outspend/" \o ToString(v)
LastIsHex == \E t \in WireTxids : LastRequest.url = HexRequest(t)
LastIsOutspend ==
    \E t \in Txids, v \in Vouts : LastRequest.url = OutspendRequest(t, v)
Queried(t) ==
    \/ LastRequest.url = HexRequest(t)
    \/ \E v \in Vouts : LastRequest.url = OutspendRequest(t, v)
\* The explorer adapter has returned after an HTTP exchange that completed.
ExplorerAnswered ==
    /\ AdapterReturned
    /\ resp.kind = "http"
    /\ resp.send = "ok"
\* A full-node call of client c is over, its response was a JSON envelope.
NodeAnswered(c) ==
    /\ pc[c] = "done"
    /\ op[c] \in {RpcCall, RpcGetTransaction}
    /\ resp.kind = "rpc"
    /\ resp.send = "ok"
    /\ resp.json
IsErr(r, kind) == r.tag = "Err" /\ r.err.kind = kind

-----------------------------------------------------------------------------
\* C11: status mapping of the explorer adapter.  For the hex request of
\* get_transaction and for the outspend probe, a 404 yields NotFound naming the
\* queried txid; any other non-success status yields NetworkFailure whose
\* detail carries the status, and the body (the placeholder text when the body
\* cannot be read); an outspend answer with spent = true and no txid yields
\* DataInconsistency.
C11_StatusMapping ==
    ExplorerAnswered =>
        /\ \A t \in WireTxids :
               resp.status = 404 /\ Queried(t) =>
                   aret = Err([kind |-> "NotFound",
                               detail |-> "Transaction " \o t \o " not found"])
        /\ resp.status # 404 /\ ~(resp.status \in 200..299) =>
               /\ IsErr(aret, "NetworkFailure")
               /\ aret.err.detail =
                      "HTTP " \o ToString(resp.status) \o " for "
                          \o LastRequest.url \o ": "
                          \o (IF resp.readable
                              THEN resp.text
                              ELSE "Failed to read body")
        /\ (/\ LastIsOutspend
            /\ resp.status = 200
            /\ resp.json.decodes
            /\ resp.json.spent
            /\ resp.json.txid = NoTx) => IsErr(aret, "DataInconsistency")

\* The outspend probe for (A,0) was answered 404 and the call returned NotFound
\* naming A.
C11_Witness ==
    /\ apc = "returned"
    /\ op["c1"] = "get_spending_transaction"
    /\ Len(wire) = 2
    /\ resp.kind = "http" /\ resp.send = "ok" /\ resp.status = 404
    /\ IsErr(aret, "NotFound")
    /\ aret.err.detail = "Transaction A not found"

-----------------------------------------------------------------------------
\* C12: error mapping of the full-node adapter.  A non-empty error object
\* always ends the call with an error determined by its code: -5 and -20 give
\* NotFound, -8 and -22 give InvalidInput, -32603 gives Other, each carrying
\* the message; every other code, a missing one (read as 0) included, gives
\* Other with "RPC error <code>: <message>".  The result field does not
\* matter.
C12_Message == IF resp.hasMessage THEN resp.message ELSE "Unknown RPC Error"
C12_Code == IF resp.hasCode THEN resp.code ELSE 0
C12_ErrorMapping ==
    \A c \in Clients :
        NodeAnswered(c) /\ resp.error = ErrorObject =>
            /\ result[c].tag = "Err"
            /\ C12_Code \in {-5, -20} =>
                   result[c].err = [kind |-> "NotFound", detail |-> C12_Message]
            /\ C12_Code \in {-8, -22} =>
                   result[c].err =
                       [kind |-> "InvalidInput", detail |-> C12_Message]
            /\ C12_Code = -32603 =>
                   result[c].err = [kind |-> "Other", detail |-> C12_Message]
            /\ C12_Code \notin {-5, -20, -8, -22, -32603} =>
                   result[c].err =
                       [kind |-> "Other",
                        detail |-> "RPC error " \o ToString(C12_Code) \o ": "
                                       \o C12_Message]

\* An rpc_call was answered with error code -28 beside a result and failed
\* with Other naming code and message.
C12_Witness ==
    /\ NodeAnswered("c1")
    /\ op["c1"] = RpcCall
    /\ resp.error = ErrorObject /\ resp.hasCode /\ resp.code = -28
    /\ resp.hasMessage
    /\ resp.result # Absent
    /\ result["c1"] = Err([kind |-> "Other", detail |-> "RPC error -28: m1"])

-----------------------------------------------------------------------------
\* C13: an envelope that carries neither a result (absent or null) nor an
\* error (absent, null, empty object or not an object) makes rpc_call return
\* DataInconsistency, never Ok.
C13_NeitherResultNorError ==
    \A c \in Clients :
        (/\ NodeAnswered(c)
         /\ op[c] = RpcCall
         /\ resp.error \in {Absent, JsonNull, EmptyObject, NonObject}
         /\ resp.result \in {Absent, JsonNull}) =>
            IsErr(result[c], "DataInconsistency")

-----------------------------------------------------------------------------
\* C14: every HTTP request of the explorer adapter is immediately preceded by
\* the pacing delay.
C14_EveryRequestPaced ==
    \A i \in 1..Len(wire) :
        wire[i].verb = "GET" => i > 1 /\ wire[i - 1].verb = "sleep"

-----------------------------------------------------------------------------
\* C15: the decorator around the explorer adapter, the probe for the outpoint
\* answered spent = true with txid B, the follow-up get_transaction(B) answered
\* 404.  The adapter returns NotFound naming B, the decorator's call ends with
\* that error straight from the await, and no step from the miss to the return
\* changes the map.
C15_Scenario(c, b) ==
    /\ op[c] = "get_spending_transaction"
    /\ AdapterReturned
    /\ wire = <<Sleep, Get(OutspendRequest(arg[c][1], arg[c][2])),
                Get(HexRequest(b))>>
    /\ resp.kind = "http" /\ resp.send = "ok" /\ resp.status = 404

C15_AdapterFails ==
    \A c \in Clients, b \in WireTxids :
        C15_Scenario(c, b) =>
            /\ aret = Err([kind |-> "NotFound",
                           detail |-> "Transaction " \o b \o " not found"])
            /\ pc[c] \in {"await", "done"}
            /\ pc[c] = "done" => result[c] = aret

C15_NothingStored ==
    \A c \in Clients :
        op[c] = "get_spending_transaction" /\ pc[c] \in {"await", "done"} =>
            /\ cache' = cache
            /\ \A b \in WireTxids :
                   C15_Scenario(c, b) /\ pc[c] = "await" /\ pc'[c] # "await" =>
                       /\ pc'[c] = "done"
                       /\ IsErr(result'[c], "NotFound")

C15_ComposedNotFound ==
    /\ [](C15_AdapterFails)
    /\ [][C15_NothingStored]_vars

\* The call for (A,0) has failed with NotFound naming B and the cache is empty.
C15_Witness ==
    /\ C15_Scenario("c1", "B")
    /\ pc["c1"] = "done"
    /\ arg["c1"] = <<"A", 0>>
    /\ IsErr(result["c1"], "NotFound")
    /\ \A k \in CacheKey : cache[k] = NoEntry

-----------------------------------------------------------------------------
\* C16: a payload that arrives but does not decode always yields
\* DataInconsistency: transaction hex that is no transaction, an outspend body
\* that is no outspend answer, spent = true without a txid, and a full-node
\* result without a string 'hex' field or with invalid hex.
C16_Explorer ==
    ExplorerAnswered /\ resp.status = 200 =>
        /\ LastIsHex /\ resp.readable /\ resp.text = InvalidHex =>
               IsErr(aret, "DataInconsistency")
        /\ LastIsOutspend /\ ~resp.json.decodes =>
               IsErr(aret, "DataInconsistency")
        /\ LastIsOutspend /\ resp.json.decodes /\ resp.json.spent
               /\ resp.json.txid = NoTx =>
               IsErr(aret, "DataInconsistency")

C16_FullNode ==
    \A c \in Clients :
        (/\ NodeAnswered(c)
         /\ op[c] = RpcGetTransaction
         /\ resp.error # ErrorObject
         /\ resp.result \in {JsonNull, EmptyObject, HexNotString,
                             "{hex: 'zz'}"}) =>
            IsErr(result[c], "DataInconsistency")

C16_UndecodablePayload == C16_Explorer /\ C16_FullNode

\* The follow-up fetch of get_spending_transaction received hex that is no
\* transaction.
C16_Witness ==
    /\ apc = "returned"
    /\ op["c1"] = "get_spending_transaction"
    /\ Len(wire) = 3
    /\ resp.kind = "http" /\ resp.status = 200 /\ resp.text = InvalidHex
    /\ IsErr(aret, "DataInconsistency")

-----------------------------------------------------------------------------
\* C17: no retries.  No request appears twice on the wire of one adapter call,
\* a call makes at most two requests (one unless it is the explorer's
\* get_spending_transaction), and a response that is a failure (transport
\* error, non-success status, undecodable payload, error object) ends the
\* call with an error without another request; a call that has returned sends
\* nothing more.
C17_Requests == {i \in 1..Len(wire) : wire[i].verb # "sleep"}
C17_AtMostOnce ==
    /\ \A i, j \in C17_Requests : wire[i] = wire[j] => i = j
    /\ Cardinality(C17_Requests) <= 2
    /\ \A c \in Clients :
           op[c] # "get_spending_transaction" => Cardinality(C17_Requests) <= 1

C17_Failed(r) ==
    \/ r.send = "err"
    \/ r.kind = "http" /\ ~(r.status \in 200..299)
    \/ r.kind = "http" /\ apc = "hex" /\ (~r.readable \/ r.text = InvalidHex)
    \/ r.kind = "http" /\ apc = "outspend" /\ ~r.json.decodes
    \/ r.kind = "rpc" /\ (~r.json \/ r.error = ErrorObject)

C17_FirstFailureReturns ==
    /\ apc \in {"hex", "outspend", "rpc"} /\ resp' # resp /\ C17_Failed(resp') =>
           /\ wire' = wire
           /\ apc' \in {"returned", "taken"}
           /\ aret'.tag = "Err"
    /\ AdapterReturned => wire' = wire \/ wire' = <<>>

C17_NoRetries ==
    /\ [](C17_AtMostOnce)
    /\ [][C17_FirstFailureReturns]_vars

\* The probe failed in transport and the call returned with one request made.
C17_Witness ==
    /\ apc = "returned"
    /\ op["c1"] = "get_spending_transaction"
    /\ resp.kind = "http" /\ resp.send = "err"
    /\ Len(wire) = 2
    /\ IsErr(aret, "NetworkFailure")

-----------------------------------------------------------------------------
\* C19: two-step ordering of the explorer's get_spending_transaction.  A hex
\* request is sent only in the step that receives the probe's answer, that
\* answer being 200 with spent = true and a txid, and it asks for that txid;
\* a probe answered otherwise ends the call with no hex request.
C19_FetchOnlyAfterPositiveProbe ==
    \A c \in Clients :
        op[c] = "get_spending_transaction" =>
            /\ \A t \in WireTxids :
                   wire' = Append(wire, Get(HexRequest(t))) =>
                       /\ apc = "outspend"
                       /\ LastIsOutspend
                       /\ resp'.send = "ok" /\ resp'.status = 200
                       /\ resp'.json.decodes /\ resp'.json.spent
                       /\ resp'.json.txid = t
            /\ (/\ apc = "outspend"
                /\ resp' # resp
                /\ ~(/\ resp'.send = "ok" /\ resp'.status = 200
                     /\ resp'.json.decodes /\ resp'.json.spent
                     /\ resp'.json.txid # NoTx)) =>
                   wire' = wire /\ apc' = "returned"

C19_HexIsThird ==
    \A c \in Clients :
        op[c] = "get_spending_transaction" =>
            \A i \in 1..Len(wire) :
                (\E t \in WireTxids : wire[i] = Get(HexRequest(t))) => i = 3

C19_TwoStepOrdering ==
    /\ [](C19_HexIsThird)
    /\ [][C19_FetchOnlyAfterPositiveProbe]_vars

\* The probe for (A,0) named B and the hex of B has been requested.
C19_Witness ==
    /\ op["c1"] = "get_spending_transaction"
    /\ arg["c1"] = <<"A", 0>>
    /\ apc = "hex"
    /\ resp.kind = "http" /\ resp.json.spent /\ resp.json.txid = "B"
    /\ wire = <<Sleep, Get(OutspendRequest("A", 0)), Get(HexRequest("B"))>>

-----------------------------------------------------------------------------
\* C21: entries are inserted or overwritten, never removed.  No step empties a
\* slot; a slot changes only in the insert step of a call for that key, which
\* replaces the whole entry by the fetched transaction stamped with the
\* current time; a refetch that fails or reports nothing leaves the map as it
\* is; and an expired entry found by a lookup stays in the map and is not
\* served.
C21_NeverRemoved ==
    \A k \in CacheKey : cache[k] # NoEntry => cache'[k] # NoEntry

C21_ReplacedWholesale ==
    \A k \in CacheKey :
        cache'[k] # cache[k] =>
            \E c \in Callers :
                /\ InsertStep(c)
                /\ Slot(c) = k
                /\ cache'[k] =
                       [transaction |-> fetched[c].tx, inserted_at |-> now]

C21_FailedRefetchKeeps ==
    \A c \in Callers :
        /\ FetchedStep(c) /\ fetched'[c].tag \in {"Err", "OkNone"} =>
               cache' = cache /\ pc'[c] = "done"
        /\ (/\ LookupStep(c)
            /\ op[c] \in CachedOps
            /\ cache[Slot(c)] # NoEntry
            /\ Age(Slot(c)) >= ttl) =>
               /\ cache' = cache
               /\ pc'[c] = "await"
               /\ result'[c] = NoResult

-----------------------------------------------------------------------------
\* C25: write frame.  The insert of get_transaction(t) changes no slot but
\* Transaction(t); the insert of get_spending_transaction(o) changes no slot
\* but Spending(o), so no Transaction slot; and no other step of any call
\* changes the map.
C25_FrameOfInsert ==
    \A c \in Callers :
        InsertStep(c) =>
            /\ op[c] = "get_transaction" =>
                   \A k \in CacheKey \ {TransactionSlot(arg[c][1])} :
                       cache'[k] = cache[k]
            /\ op[c] = "get_spending_transaction" =>
                   /\ \A k \in CacheKey \ {SpendingSlot(arg[c])} :
                          cache'[k] = cache[k]
                   /\ \A t \in Txids :
                          cache'[TransactionSlot(t)] = cache[TransactionSlot(t)]

C25_OnlyInsertsWrite ==
    cache' # cache => \E c \in Callers : InsertStep(c)

C25_WriteFrame == [][C25_FrameOfInsert /\ C25_OnlyInsertsWrite]_vars

\* A get_spending_transaction call has stored Some(tx) under Spending((A,0))
\* and the Transaction slot of A is still empty.
C25_Witness ==
    /\ pc["c1"] = "done"
    /\ op["c1"] = "get_spending_transaction"
    /\ invoked["c1"] = 1
    /\ result["c1"].tag = "OkSome"
    /\ cache[SpendingSlot(<<"A", 0>>)].transaction = result["c1"].tx
    /\ cache[TransactionSlot("A")] = NoEntry

-----------------------------------------------------------------------------
-----------------------------------------------------------------------------
\* C22: transparency.  Around a source whose answer to each query never
\* changes, every finished get_transaction and get_spending_transaction call
\* has the result the source itself gives for that argument, whatever was
\* called before and whatever the TTL.
C22_Transparency ==
    \A c \in Callers :
        pc[c] = "done" /\ op[c] \in CachedOps => result[c] = source[Slot(c)]

\* A get_spending_transaction call was served from the cache, after the entry
\* had been refetched, with the source's own answer.
C22_Witness ==
    /\ pc["c1"] = "done"
    /\ op["c1"] = "get_spending_transaction"
    /\ invoked["c1"] = 0
    /\ result["c1"].tag = "OkSome"
    /\ result["c1"] = source[SpendingSlot(<<"A", 0>>)]
    /\ cache[SpendingSlot(<<"A", 0>>)].inserted_at > 0

-----------------------------------------------------------------------------
\* C24: cache integrity under concurrency.  In every reachable state the
\* transaction stored under Transaction(t) is one the wrapped source returned
\* for get_transaction(t), the transaction stored under Spending(o) is one it
\* returned as Some for get_spending_transaction(o), and a transaction handed
\* back by a finished call is one the wrapped source returned for that query.
C24_StoredWasReturned ==
    /\ \A t \in Txids :
           cache[TransactionSlot(t)] # NoEntry =>
               cache[TransactionSlot(t)].transaction
                   \in returned[TransactionSlot(t)]
    /\ \A o \in OutPoints :
           cache[SpendingSlot(o)] # NoEntry =>
               cache[SpendingSlot(o)].transaction \in returned[SpendingSlot(o)]

C24_HandedBackWasReturned ==
    \A c \in Callers :
        (/\ pc[c] = "done"
         /\ op[c] \in CachedOps
         /\ result[c].tag \in {"Ok", "OkSome"}) =>
            result[c].tx \in returned[Slot(c)]

C24_CacheIntegrity == C24_StoredWasReturned /\ C24_HandedBackWasReturned

\* The two key spaces of one txid hold different transactions, the wrapped
\* source has returned both transactions for one of the queries, and a call is
\* being served while the other caller is about to overwrite the entry.
C24_Witness ==
    /\ cache[TransactionSlot("A")] # NoEntry
    /\ cache[SpendingSlot(<<"A", 0>>)] # NoEntry
    /\ cache[TransactionSlot("A")].transaction
           # cache[SpendingSlot(<<"A", 0>>)].transaction
    /\ Cardinality(returned[TransactionSlot("A")]) = 2
    /\ pc["c1"] = "done" /\ invoked["c1"] = 0 /\ result["c1"].tag = "Ok"
    /\ pc["c2"] = "insert"

-----------------------------------------------------------------------------
\* C23: a hit is read-only.  A lookup that finds a fresh entry ends the call
\* without changing the map, timestamps included; the timestamp of a slot
\* changes only in the insert step of a call for that key; and a lookup at or
\* after insertion time + TTL misses, however many hits came in between.
C23_HitChangesNothing ==
    \A c \in Callers :
        LookupStep(c) /\ op[c] \in CachedOps /\ Fresh(Slot(c)) =>
            /\ cache' = cache
            /\ invoked' = invoked
            /\ pc'[c] = "done"

C23_StampedOnlyByInsert ==
    \A k \in CacheKey :
        cache'[k].inserted_at # cache[k].inserted_at =>
            \E c \in Callers :
                InsertStep(c) /\ Slot(c) = k /\ cache'[k].inserted_at = now

C23_StaleAtTTL ==
    \A c \in Callers :
        (/\ LookupStep(c)
         /\ op[c] \in CachedOps
         /\ cache[Slot(c)] # NoEntry
         /\ now >= cache[Slot(c)].inserted_at + ttl) => pc'[c] = "await"

C23_HitReadOnly ==
    [][C23_HitChangesNothing /\ C23_StampedOnlyByInsert /\ C23_StaleAtTTL]_vars

\* A hit has just been served from an entry one tick old, which keeps its
\* timestamp of 0.
C23_Witness ==
    /\ pc["c1"] = "done"
    /\ op["c1"] = "get_transaction"
    /\ invoked["c1"] = 0
    /\ result["c1"].tag = "Ok"
    /\ ttl = 2
    /\ now = 1
    /\ cache[TransactionSlot("A")].inserted_at = 0

====
